---- MODULE Spec2Model ----
(***************************************************************************)
(* dev-environment-manager (Go): the session lifecycle of pkg.go.          *)
(*                                                                         *)
(* A process of the tool loads the configuration (cmd.go initConfig) and   *)
(* then runs AddProjectConfig, StartProject or RunContainer.  The shared   *)
(* world is the configuration file, the file system under ~/Projects and   *)
(* the container engine.  The engine, the file system, git and the         *)
(* configuration library are collaborators: the model gives them the       *)
(* outcomes they can produce (success, failure, name conflict) and the     *)
(* code under src/ decides what happens next.                              *)
(***************************************************************************)
EXTENDS Integers, Sequences, FiniteSets, TLC

VARIABLES
    disk,      \* the configuration file: [exists, data]
    fs,        \* project paths that exist on the file system
    engine,    \* container id -> [name, state], the containers the engine holds
    nextId,    \* the id the engine gives to the next container it creates
    pc,        \* per process: where it is
    penv,      \* per process: its environment (user lookup, $HOME, config file)
    mem,       \* per process: viper's in-memory settings
    call,      \* per process: the call in progress, or the last one made
    log,       \* per process: the external operations issued by that call
    prev,      \* per process: the RunContainer call made just before this call
    exit       \* per process: how its last run ended, "none" while it runs

vars == <<disk, fs, engine, nextId, pc, penv, mem, call, log, prev, exit>>

----------------------------------------------------------------------------
(* Bounds and the inputs the model draws from.                             *)

\* The engine hands out container ids 1..MaxContainers.
MaxContainers == 2

Procs == {"p1", "p2"}

\* The tool runs one process at a time: Main stands for the one alive.
Main == "p1"

Dirs == {"demo"}
Repos == {"api", "Api", "web"}
Urls == {"https://example.com/api.git", "https://example.com/other.git"}

\* user.Current().Username of the invoking user, as segments between "/".
OsUsername == <<"bob">>
HomeDir == "/home/bob"

----------------------------------------------------------------------------
(* Strings.                                                                *)

\* strings.ToLower on the strings of the model that hold an upper-case letter.
UpperToLower == ("Api" :> "api")

ToLower(s) == IF s \in DOMAIN UpperToLower THEN UpperToLower[s] ELSE s

\* strings.Split(s, "."), the key delimiter of viper, on the strings of the
\* model that hold a dot.
Dotted == ("api.v2" :> <<"api", "v2">>)

Split(s) == IF s \in DOMAIN Dotted THEN Dotted[s] ELSE <<s>>

\* filepath.Join(homeDir, "Projects", projectDirName, repoName); the file
\* system keeps the case of every segment.
projectPath(homeDir, projectDirName, repoName) ==
    homeDir \o "/" \o "Projects" \o "/" \o projectDirName \o "/" \o repoName

\* strings.ToLower applied to every segment of a key, as viper does to the
\* keys it is given and to the keys it reads from a file.
RECURSIVE lowerSegments(_)
lowerSegments(key) ==
    IF key = << >> THEN << >>
    ELSE <<ToLower(Head(key))>> \o lowerSegments(Tail(key))

----------------------------------------------------------------------------
(* The configuration store (viper).  A store maps a key path, the segments *)
(* of "a.b.c" between the dots, to the map of the fields set under it.     *)

EmptyStore == [k \in {} |-> [f \in {} |-> ""]]

\* viper.IsSet(key): something is stored at the key path, be it the fields
\* of a record, a deeper path, or one field of the record above it.
IsSet(store, key) ==
    LET k == lowerSegments(key)
    IN  \/ k \in DOMAIN store
        \/ \E q \in DOMAIN store :
              Len(q) > Len(k) /\ SubSeq(q, 1, Len(k)) = k
        \/ \E q \in DOMAIN store :
              /\ Len(q) + 1 = Len(k)
              /\ SubSeq(k, 1, Len(q)) = q
              /\ k[Len(k)] \in DOMAIN store[q]

\* viper.Set(key + "." + field, value)
Set(store, key, field, value) ==
    LET k == lowerSegments(key)
    IN  IF k \in DOMAIN store
        THEN [store EXCEPT ![k] = (field :> value) @@ @]
        ELSE (k :> (field :> value)) @@ store

\* viper.GetStringMapString(key): the string fields set right under the key.
GetStringMapString(store, key) ==
    LET k == lowerSegments(key)
    IN  IF k \in DOMAIN store THEN store[k] ELSE [f \in {} |-> ""]

\* m[field] on a Go map[string]string: the zero value "" when field is absent.
Index(m, field) == IF field \in DOMAIN m THEN m[field] ELSE ""

\* viper.ReadInConfig: the settings of the file, keys made lower-case; nothing
\* when there is no file.
ReadInConfig(file) ==
    IF ~file.exists THEN EmptyStore
    ELSE [k \in {lowerSegments(q) : q \in DOMAIN file.data} |->
            file.data[CHOOSE q \in DOMAIN file.data : lowerSegments(q) = k]]

\* fmt.Sprintf("users.%s.projects.%s.repos.%s", username, projectDirName, repoName),
\* as the path viper makes of it: the names go in as they are, and a dot
\* inside a name separates segments like any other dot of the key.
projectKey(username, projectDirName, repoName) ==
    <<"users">> \o Split(username) \o <<"projects">> \o Split(projectDirName)
        \o <<"repos">> \o Split(repoName)

\* The key layout of the documented config.yaml: projects.<dir>.repos.<repo>.
documentedKey(projectDirName, repoName) ==
    <<"projects", projectDirName, "repos", repoName>>

\* getUsername: the last segment of user.Current().Username, or an error.
getUsername(userOK) ==
    IF userOK THEN [username |-> OsUsername[Len(OsUsername)], err |-> FALSE]
    ELSE [username |-> "", err |-> TRUE]

----------------------------------------------------------------------------
(* Identity resolution.                                                    *)

DefaultRepoURL(repoName) == "https://github.com/Cdaprod/" \o ToLower(repoName) \o ".git"
DefaultImage(repoName) == "cdaprod/" \o ToLower(repoName) \o ":latest"
DefaultContainerName(repoName) == "nvim-" \o ToLower(repoName)

\* deriveProjectValues with a stored record completed from the defaults: the
\* image is the derived one whatever the record says.
deriveProjectValuesMerging(store, userOK, projectDirName, repoName) ==
    LET key == projectKey(getUsername(userOK).username, projectDirName, repoName)
    IN  IF IsSet(store, key)
        THEN LET projectConfig == GetStringMapString(store, key)
             IN  [repoURL       |-> Index(projectConfig, "repo_url"),
                  dockerImage   |-> DefaultImage(repoName),
                  containerName |-> Index(projectConfig, "container_name")]
        ELSE [repoURL       |-> DefaultRepoURL(repoName),
              dockerImage   |-> DefaultImage(repoName),
              containerName |-> DefaultContainerName(repoName)]

\* deriveProjectValues with the container name derived from the repository
\* name as given, not lower-cased.
deriveProjectValuesKeepingCase(store, userOK, projectDirName, repoName) ==
    LET key == projectKey(getUsername(userOK).username, projectDirName, repoName)
    IN  IF IsSet(store, key)
        THEN LET projectConfig == GetStringMapString(store, key)
             IN  [repoURL       |-> Index(projectConfig, "repo_url"),
                  dockerImage   |-> Index(projectConfig, "docker_image"),
                  containerName |-> Index(projectConfig, "container_name")]
        ELSE [repoURL       |-> DefaultRepoURL(repoName),
              dockerImage   |-> DefaultImage(repoName),
              containerName |-> "nvim-" \o repoName]

\* deriveProjectValues: the stored record when the key is set, else defaults.
\* A failed user lookup is logged and the key is built with username "".
deriveProjectValues(store, userOK, projectDirName, repoName) ==
    LET key == projectKey(getUsername(userOK).username, projectDirName, repoName)
    IN  IF IsSet(store, key)
        THEN LET projectConfig == GetStringMapString(store, key)
             IN  [repoURL       |-> Index(projectConfig, "repo_url"),
                  dockerImage   |-> Index(projectConfig, "docker_image"),
                  containerName |-> Index(projectConfig, "container_name")]
        ELSE [repoURL       |-> DefaultRepoURL(repoName),
              dockerImage   |-> DefaultImage(repoName),
              containerName |-> DefaultContainerName(repoName)]

\* getVolumeBindings with the source path bound first, as a list built by
\* prepending would have it.
getVolumeBindingsSourceFirst(homeDir, path) ==
    << path \o ":/usr/src/app",
       homeDir \o "/.config/nvim:/root/.config/nvim",
       homeDir \o "/.vim:/root/.vim",
       homeDir \o "/.vimrc:/root/.vimrc" >>

\* getVolumeBindings(homeDir, projectPath)
getVolumeBindings(homeDir, path) ==
    << homeDir \o "/.config/nvim:/root/.config/nvim",
       homeDir \o "/.vim:/root/.vim",
       homeDir \o "/.vimrc:/root/.vimrc",
       path \o ":/usr/src/app" >>

----------------------------------------------------------------------------
(* Configuration files a user may have written before the tool runs.       *)

\* A record as the documented config.yaml writes it, with bindings of its own.
CustomRecord ==
    [repo_url        |-> "https://example.com/api.git",
     docker_image    |-> "acme/api-dev:1",
     container_name  |-> "api-dev",
     volume_bindings |-> <<"$HOME/Projects/demo/api/plugins:/root/plugins",
                           "/srv/data:/data">>]

\* A record that lacks docker_image and container_name.
PartialRecord == [repo_url |-> "https://example.com/web.git"]

NoFile == [exists |-> FALSE, data |-> EmptyStore]

\* The layout of the documented config.yaml.
DocumentedFile ==
    [exists |-> TRUE,
     data   |-> (documentedKey("demo", "api") :> CustomRecord)]

\* The layout pkg.go reads and writes.
UserFile ==
    [exists |-> TRUE,
     data   |-> (projectKey("bob", "demo", "api") :> CustomRecord)
                @@ (projectKey("bob", "demo", "web") :> PartialRecord)]

InitialFiles == {NoFile, DocumentedFile, UserFile}
----------------------------------------------------------------------------
(* Processes.                                                              *)

NoCall ==
    [op |-> "none", dir |-> "", repo |-> "", repoURL |-> "", image |-> "",
     cname |-> "", binds |-> << >>, respID |-> 0, containerID |-> 0,
     err |-> << >>]

NoEnv == [userOK |-> TRUE, homeOK |-> TRUE, configFile |-> FALSE]

\* One entry of the log of external operations: the operation, the name it
\* was given (URL, image, container name or path), the container id it was
\* given or returned (0 for none) and how it ended.
Op(op, name, id, res) == [op |-> op, name |-> name, id |-> id, res |-> res]

\* The call of p has returned.
Returned(p) == pc[p] = "idle" /\ call[p].op # "none"

\* The call of p has returned the error chain e (<< >> is nil).
Return(p, e) ==
    /\ pc' = [pc EXCEPT ![p] = "idle"]
    /\ call' = [call EXCEPT ![p].err = e]

Init ==
    /\ disk \in InitialFiles
    /\ fs = {}
    /\ engine = [i \in {} |-> [name |-> "", state |-> ""]]
    /\ nextId = 1
    /\ pc = [p \in Procs |-> "off"]
    /\ penv = [p \in Procs |-> NoEnv]
    /\ mem = [p \in Procs |-> EmptyStore]
    /\ call = [p \in Procs |-> NoCall]
    /\ log = [p \in Procs |-> << >>]
    /\ prev = [p \in Procs |-> NoCall]
    /\ exit = [p \in Procs |-> "none"]

\* main, Execute and initConfig: the process starts, with or without a
\* --config flag, and reads the configuration file if there is one.  Without
\* the flag initConfig needs the home directory and exits when it has none.
initConfig(p) ==
    /\ pc[p] = "off"
    /\ \E userOK \in BOOLEAN, homeOK \in BOOLEAN, cfgFlag \in BOOLEAN :
          /\ cfgFlag \/ homeOK
          /\ penv' = [penv EXCEPT ![p] =
                        [userOK |-> userOK, homeOK |-> homeOK,
                         configFile |-> cfgFlag \/ disk.exists]]
    /\ mem' = [mem EXCEPT ![p] = ReadInConfig(disk)]
    /\ pc' = [pc EXCEPT ![p] = "idle"]
    /\ exit' = [exit EXCEPT ![p] = "none"]
    /\ UNCHANGED <<disk, fs, engine, nextId, call, log, prev>>

\* The process is gone and nothing of its memory is kept.
Ends(p, status) ==
    /\ pc' = [pc EXCEPT ![p] = "off"]
    /\ exit' = [exit EXCEPT ![p] = status]
    /\ penv' = [penv EXCEPT ![p] = NoEnv]
    /\ mem' = [mem EXCEPT ![p] = EmptyStore]
    /\ call' = [call EXCEPT ![p] = NoCall]
    /\ log' = [log EXCEPT ![p] = << >>]
    /\ prev' = [prev EXCEPT ![p] = NoCall]
    /\ UNCHANGED <<disk, fs, engine, nextId>>

\* Exit with the error of the command logged and not made fatal: the
\* process returns from main with status 0 whatever the command returned.
ExitAfterLoggingError(p) ==
    /\ pc[p] = "idle"
    /\ Ends(p, "0")

\* The process ends after its command: logrus.Fatalf, which exits with
\* status 1, when the command returned an error, else the return from main.
Exit(p) ==
    /\ pc[p] = "idle"
    /\ Ends(p, IF call[p].err # << >> THEN "1" ELSE "0")

\* An interrupt signal reaches the process.  No handler is installed, so the
\* Go runtime ends the process there and then, wherever it is.
Interrupt(p) ==
    /\ pc[p] # "off"
    /\ Ends(p, "SIGINT")

----------------------------------------------------------------------------
(* AddProjectConfig.                                                       *)

\* How viper.WriteConfigAs(viper.ConfigFileUsed()) can end.  With no
\* configuration file in use the file name is "" and the open fails with
\* "no such file"; otherwise the file is written, or it cannot be opened
\* and stays as it is.
WriteOutcomes(configFile) ==
    IF configFile THEN {"ok", "open failed"}
    ELSE {"not exist"}

\* The in-memory settings after the three viper.Set calls.
SetProject(store, key, repoURL, dockerImage, containerName) ==
    Set(Set(Set(store, key, "repo_url", repoURL),
            key, "docker_image", dockerImage),
        key, "container_name", containerName)

\* AddProjectConfig storing the record under projects.<dir>.repos.<repo>,
\* the key of the documented config.yaml, not under the key start reads.
AddProjectConfigDocumentedKey(p, projectDirName, repoName, repoURL, dockerImage, containerName) ==
    LET u   == getUsername(penv[p].userOK)
        key == documentedKey(projectDirName, repoName)
        c   == [NoCall EXCEPT !.op = "AddProjectConfig", !.dir = projectDirName,
                              !.repo = repoName, !.repoURL = repoURL,
                              !.image = dockerImage, !.cname = containerName]
        done(e) == /\ prev' = [prev EXCEPT ![p] = NoCall]
                   /\ call' = [call EXCEPT ![p] = [c EXCEPT !.err = e]]
                   /\ log' = [log EXCEPT ![p] = << >>]
    IN  /\ pc[p] = "idle"
        /\ IF u.err
           THEN /\ done(<<"error getting username">>)
                /\ UNCHANGED <<mem, disk>>
           ELSE IF IsSet(mem[p], key)
           THEN /\ done(<<"repository already exists">>)
                /\ UNCHANGED <<mem, disk>>
           ELSE /\ mem' = [mem EXCEPT ![p] =
                             SetProject(@, key, repoURL, dockerImage, containerName)]
                /\ \E w \in WriteOutcomes(penv[p].configFile) :
                      \/ /\ w = "ok"
                         /\ disk' = [exists |-> TRUE, data |-> mem'[p]]
                         /\ done(<< >>)
                      \/ /\ w = "not exist"
                         \* SafeWriteConfigAs on the same name fails the same way
                         /\ UNCHANGED disk
                         /\ done(<<"error creating config file">>)
                      \/ /\ w = "open failed"
                         /\ UNCHANGED disk
                         /\ done(<<"error writing config file">>)
        /\ UNCHANGED <<fs, engine, nextId, pc, penv, exit>>

AddProjectConfig(p, projectDirName, repoName, repoURL, dockerImage, containerName) ==
    LET u   == getUsername(penv[p].userOK)
        key == projectKey(u.username, projectDirName, repoName)
        c   == [NoCall EXCEPT !.op = "AddProjectConfig", !.dir = projectDirName,
                              !.repo = repoName, !.repoURL = repoURL,
                              !.image = dockerImage, !.cname = containerName]
        done(e) == /\ prev' = [prev EXCEPT ![p] = NoCall]
                   /\ call' = [call EXCEPT ![p] = [c EXCEPT !.err = e]]
                   /\ log' = [log EXCEPT ![p] = << >>]
    IN  /\ pc[p] = "idle"
        /\ IF u.err
           THEN /\ done(<<"error getting username">>)
                /\ UNCHANGED <<mem, disk>>
           ELSE IF IsSet(mem[p], key)
           THEN /\ done(<<"repository already exists">>)
                /\ UNCHANGED <<mem, disk>>
           ELSE /\ mem' = [mem EXCEPT ![p] =
                             SetProject(@, key, repoURL, dockerImage, containerName)]
                /\ \E w \in WriteOutcomes(penv[p].configFile) :
                      \/ /\ w = "ok"
                         /\ disk' = [exists |-> TRUE, data |-> mem'[p]]
                         /\ done(<< >>)
                      \/ /\ w = "not exist"
                         \* SafeWriteConfigAs on the same name fails the same way
                         /\ UNCHANGED disk
                         /\ done(<<"error creating config file">>)
                      \/ /\ w = "open failed"
                         /\ UNCHANGED disk
                         /\ done(<<"error writing config file">>)
        /\ UNCHANGED <<fs, engine, nextId, pc, penv, exit>>

\* addProjectCmd: the one command of its process; it derives image and
\* container name itself.
addProjectCmd(p, projectDirName, repoName, repoURL) ==
    /\ call[p].op = "none"
    /\ AddProjectConfig(p, projectDirName, repoName, repoURL,
                        "cdaprod/" \o ToLower(repoName) \o ":latest",
                        "nvim-" \o ToLower(repoName))
----------------------------------------------------------------------------
(* The container engine.                                                   *)

\* A container of that name exists, in whatever state.  An empty name asks
\* the engine for a generated one, which never collides.
NameTaken(name) ==
    name # "" /\ \E id \in DOMAIN engine : engine[id].name = name

Running(name) == {id \in DOMAIN engine :
                    engine[id].name = name /\ engine[id].state = "running"}

\* The main process of a running container ends, or the container is stopped.
ContainerExits(id) ==
    /\ id \in DOMAIN engine
    /\ engine[id].state = "running"
    /\ engine' = [engine EXCEPT ![id].state = "exited"]
    /\ UNCHANGED <<disk, fs, nextId, pc, penv, exit, mem, call, log, prev>>

----------------------------------------------------------------------------
(* StartProject and RunContainer, one action per external operation.       *)

Logged(p, entry) == log' = [log EXCEPT ![p] = Append(@, entry)]

\* StartProject keeping the identity it resolved in viper (viper.Set), as a
\* registry that caches what it derives would.
StartProjectCachingIdentity(p, projectDirName, repoName) ==
    LET c == [NoCall EXCEPT !.op = "StartProject", !.dir = projectDirName,
                            !.repo = repoName]
        v == deriveProjectValues(mem[p], penv[p].userOK, projectDirName, repoName)
        key == projectKey(getUsername(penv[p].userOK).username,
                          projectDirName, repoName)
    IN  /\ pc[p] = "idle"
        /\ nextId <= MaxContainers
        /\ prev' = [prev EXCEPT ![p] = NoCall]
        /\ log' = [log EXCEPT ![p] = << >>]
        /\ IF ~penv[p].homeOK
           THEN /\ call' = [call EXCEPT ![p] =
                              [c EXCEPT !.err = <<"error getting home directory">>]]
                /\ UNCHANGED <<pc, mem>>
           ELSE /\ call' = [call EXCEPT ![p] =
                              [c EXCEPT !.repoURL = v.repoURL,
                                        !.image = v.dockerImage,
                                        !.cname = v.containerName]]
                /\ mem' = [mem EXCEPT ![p] =
                             SetProject(@, key, v.repoURL, v.dockerImage,
                                        v.containerName)]
                /\ pc' = [pc EXCEPT ![p] = "stat"]
        /\ UNCHANGED <<disk, fs, engine, nextId, penv, exit>>

\* StartProject, lines 24-31: the home directory and the identity.
StartProject(p, projectDirName, repoName) ==
    LET c == [NoCall EXCEPT !.op = "StartProject", !.dir = projectDirName,
                            !.repo = repoName]
        v == deriveProjectValues(mem[p], penv[p].userOK, projectDirName, repoName)
    IN  /\ pc[p] = "idle"
        /\ nextId <= MaxContainers
        /\ prev' = [prev EXCEPT ![p] = NoCall]
        /\ log' = [log EXCEPT ![p] = << >>]
        /\ IF ~penv[p].homeOK
           THEN /\ call' = [call EXCEPT ![p] =
                              [c EXCEPT !.err = <<"error getting home directory">>]]
                /\ UNCHANGED pc
           ELSE /\ call' = [call EXCEPT ![p] =
                              [c EXCEPT !.repoURL = v.repoURL,
                                        !.image = v.dockerImage,
                                        !.cname = v.containerName]]
                /\ pc' = [pc EXCEPT ![p] = "stat"]
        /\ UNCHANGED <<disk, fs, engine, nextId, penv, exit, mem>>

\* startCmd: the one command of its process.
startCmd(p, projectDirName, repoName) ==
    /\ call[p].op = "none"
    /\ StartProject(p, projectDirName, repoName)

\* StartProject, lines 43-53: the bindings are composed and RunContainer is
\* entered.
EnterRunContainer(p) ==
    /\ pc' = [pc EXCEPT ![p] = "client"]
    /\ call' = [call EXCEPT ![p].binds =
                  getVolumeBindings(HomeDir,
                      projectPath(HomeDir, call[p].dir, call[p].repo))]

\* os.Stat with its result not looked at: the clone is always tried.
StatAlwaysCloning(p) ==
    LET path == projectPath(HomeDir, call[p].dir, call[p].repo)
    IN  /\ pc[p] = "stat"
        /\ \E res \in (IF path \in fs THEN {"ok"} ELSE {"not exist"})
                         \cup {"permission denied"} :
              /\ Logged(p, Op("stat", path, 0, res))
              /\ pc' = [pc EXCEPT ![p] = "clone"]
              /\ UNCHANGED call
        /\ UNCHANGED <<disk, fs, engine, nextId, penv, exit, mem, prev>>

\* StartProject, lines 33-34 and 39-41: os.Stat of the project path.  Only a
\* "not exist" error leads to a clone; any other result skips it.
Stat(p) ==
    LET path == projectPath(HomeDir, call[p].dir, call[p].repo)
    IN  /\ pc[p] = "stat"
        /\ \E res \in (IF path \in fs THEN {"ok"} ELSE {"not exist"})
                         \cup {"permission denied"} :
              /\ Logged(p, Op("stat", path, 0, res))
              /\ IF res = "not exist"
                 THEN /\ pc' = [pc EXCEPT ![p] = "clone"]
                      /\ UNCHANGED call
                 ELSE EnterRunContainer(p)
        /\ UNCHANGED <<disk, fs, engine, nextId, penv, exit, mem, prev>>

\* CloneRepo with its error dropped by the caller: the session goes on to
\* RunContainer after a failed clone.
CloneRepoIgnoringFailure(p) ==
    LET path == projectPath(HomeDir, call[p].dir, call[p].repo)
    IN  /\ pc[p] = "clone"
        /\ \/ /\ call[p].repoURL # ""
              /\ path \notin fs
              /\ fs' = fs \cup {path}
              /\ Logged(p, Op("clone", call[p].repoURL, 0, "ok"))
              /\ EnterRunContainer(p)
           \/ /\ \E left \in BOOLEAN :
                    fs' = IF left THEN fs \cup {path} ELSE fs
              /\ Logged(p, Op("clone", call[p].repoURL, 0, "failed"))
              /\ EnterRunContainer(p)
        /\ UNCHANGED <<disk, engine, nextId, penv, exit, mem, prev>>

\* StartProject, lines 35-38, and CloneRepo: git.PlainClone into the path.
\* A failed clone may leave the directory behind.
CloneRepo(p) ==
    LET path == projectPath(HomeDir, call[p].dir, call[p].repo)
    IN  /\ pc[p] = "clone"
        /\ \/ /\ call[p].repoURL # ""
              /\ path \notin fs
              /\ fs' = fs \cup {path}
              /\ Logged(p, Op("clone", call[p].repoURL, 0, "ok"))
              /\ EnterRunContainer(p)
           \/ /\ \E left \in BOOLEAN :
                    fs' = IF left THEN fs \cup {path} ELSE fs
              /\ Logged(p, Op("clone", call[p].repoURL, 0, "failed"))
              /\ Return(p, <<"error cloning repository", "clone failed">>)
        /\ UNCHANGED <<disk, engine, nextId, penv, exit, mem, prev>>

\* RunContainer called on its own, as a test of it does.  prev keeps the
\* RunContainer call that came just before it, if there was one.
RunContainer(p, imageName, containerName) ==
    /\ pc[p] = "idle"
    /\ nextId <= MaxContainers
    /\ pc' = [pc EXCEPT ![p] = "client"]
    /\ prev' = [prev EXCEPT ![p] =
                  IF call[p].op = "RunContainer" THEN call[p] ELSE NoCall]
    /\ call' = [call EXCEPT ![p] =
                  [NoCall EXCEPT !.op = "RunContainer", !.image = imageName,
                                 !.cname = containerName,
                                 !.binds = getVolumeBindings(HomeDir,
                                              projectPath(HomeDir, "demo", "api"))]]
    /\ log' = [log EXCEPT ![p] = << >>]
    /\ UNCHANGED <<disk, fs, engine, nextId, penv, exit, mem>>

\* The error values an engine call can return: one of the call's own, or the
\* error of a daemon that cannot be reached, which reads the same whichever
\* call met it.
EngineErrors(own) == {own, "daemon unreachable"}

\* RunContainer returns "", err, the error of the engine as it came:
\* StartProject wraps it (lines 54-56).
RunContainerFails(p, cause) ==
    IF call[p].op = "StartProject"
    THEN Return(p, <<"error running container", cause>>)
    ELSE Return(p, <<cause>>)

\* RunContainer, lines 159-164: the engine client.
NewClient(p) ==
    /\ pc[p] = "client"
    /\ \/ /\ pc' = [pc EXCEPT ![p] = "pull"]
          /\ UNCHANGED call
       \/ RunContainerFails(p, "client failed")
    /\ UNCHANGED <<disk, fs, engine, nextId, penv, exit, mem, log, prev>>

\* ImagePull with one more attempt after a pull that failed.
ImagePullRetrying(p) ==
    /\ pc[p] = "pull"
    /\ \/ /\ call[p].image # ""
          /\ \E res \in {"ok", "stream failed"} :
                Logged(p, Op("pull", call[p].image, 0, res))
          /\ pc' = [pc EXCEPT ![p] = "create"]
          /\ UNCHANGED call
       \/ /\ Logged(p, Op("pull", call[p].image, 0, "failed"))
          /\ IF \E i \in DOMAIN log[p] : log[p][i].op = "pull"
             THEN \E cause \in EngineErrors("pull failed") : RunContainerFails(p, cause)
             ELSE UNCHANGED <<pc, call>>
    /\ UNCHANGED <<disk, fs, engine, nextId, penv, exit, mem, prev>>

\* ImagePull with the error of the pull call logged and dropped: the call
\* goes on to create the container from an image that was not pulled.
ImagePullIgnoringFailure(p) ==
    /\ pc[p] = "pull"
    /\ \/ /\ call[p].image # ""
          /\ \E res \in {"ok", "stream failed"} :
                Logged(p, Op("pull", call[p].image, 0, res))
       \/ Logged(p, Op("pull", call[p].image, 0, "failed"))
    /\ pc' = [pc EXCEPT ![p] = "create"]
    /\ UNCHANGED <<disk, fs, engine, nextId, penv, exit, mem, call, prev>>

\* RunContainer, lines 166-174: the image is pulled; an error while the
\* progress stream is copied is not looked at.
ImagePull(p) ==
    /\ pc[p] = "pull"
    /\ \/ /\ call[p].image # ""
          /\ \E res \in {"ok", "stream failed"} :
                Logged(p, Op("pull", call[p].image, 0, res))
          /\ pc' = [pc EXCEPT ![p] = "create"]
          /\ UNCHANGED call
       \/ /\ Logged(p, Op("pull", call[p].image, 0, "failed"))
          /\ \E cause \in EngineErrors("pull failed") : RunContainerFails(p, cause)
    /\ UNCHANGED <<disk, fs, engine, nextId, penv, exit, mem, prev>>

\* ContainerCreate after the removal of whatever container holds the name,
\* as the documented RunContainer does before it creates.
ContainerCreateReplacing(p) ==
    LET others == {i \in DOMAIN engine : engine[i].name # call[p].cname}
    IN  /\ pc[p] = "create"
        /\ \/ /\ engine' = (nextId :> [name |-> call[p].cname, state |-> "created"])
                             @@ [i \in others |-> engine[i]]
               /\ nextId' = nextId + 1
               /\ Logged(p, Op("create", call[p].cname, nextId, "ok"))
               /\ pc' = [pc EXCEPT ![p] = "start"]
               /\ call' = [call EXCEPT ![p].respID = nextId]
            \/ /\ Logged(p, Op("create", call[p].cname, 0, "failed"))
               /\ \E cause \in EngineErrors("create failed") : RunContainerFails(p, cause)
               /\ UNCHANGED <<engine, nextId>>
        /\ UNCHANGED <<disk, fs, penv, exit, mem, prev>>

\* RunContainer, lines 176-195: the container is created under the name.
\* The engine refuses a name that a container already holds.
ContainerCreate(p) ==
    /\ pc[p] = "create"
    /\ IF NameTaken(call[p].cname)
       THEN /\ Logged(p, Op("create", call[p].cname, 0, "conflict"))
            /\ RunContainerFails(p, "name conflict")
            /\ UNCHANGED <<engine, nextId>>
       ELSE \/ /\ engine' = (nextId :> [name |-> call[p].cname, state |-> "created"])
                            @@ engine
               /\ nextId' = nextId + 1
               /\ Logged(p, Op("create", call[p].cname, nextId, "ok"))
               /\ pc' = [pc EXCEPT ![p] = "start"]
               /\ call' = [call EXCEPT ![p].respID = nextId]
            \/ /\ Logged(p, Op("create", call[p].cname, 0, "failed"))
               /\ \E cause \in EngineErrors("create failed") : RunContainerFails(p, cause)
               /\ UNCHANGED <<engine, nextId>>
    /\ UNCHANGED <<disk, fs, penv, exit, mem, prev>>

\* ContainerStart with the container removed again when the start fails.
ContainerStartCleaningUp(p) ==
    LET id == call[p].respID
    IN  /\ pc[p] = "start"
        /\ \/ /\ id \in DOMAIN engine
              /\ engine' = [engine EXCEPT ![id].state = "running"]
              /\ Logged(p, Op("start", call[p].cname, id, "ok"))
              /\ IF call[p].op = "StartProject"
                 THEN /\ pc' = [pc EXCEPT ![p] = "attach"]
                      /\ call' = [call EXCEPT ![p].containerID = id]
                 ELSE /\ pc' = [pc EXCEPT ![p] = "idle"]
                      /\ call' = [call EXCEPT ![p].containerID = id]
           \/ /\ log' = [log EXCEPT ![p] =
                           @ \o <<Op("start", call[p].cname, id, "failed"),
                                  Op("remove", call[p].cname, id, "ok")>>]
              /\ \E cause \in EngineErrors("start failed") : RunContainerFails(p, cause)
              /\ engine' = [i \in DOMAIN engine \ {id} |-> engine[i]]
        /\ UNCHANGED <<disk, fs, nextId, penv, exit, mem, prev>>

\* ContainerStart with the cleanup placed right after RunContainer: the
\* session goes to the removal without waiting for the editor.
ContainerStartThenRemove(p) ==
    LET id == call[p].respID
    IN  /\ pc[p] = "start"
        /\ \/ /\ id \in DOMAIN engine
              /\ engine' = [engine EXCEPT ![id].state = "running"]
              /\ Logged(p, Op("start", call[p].cname, id, "ok"))
              /\ IF call[p].op = "StartProject"
                 THEN /\ pc' = [pc EXCEPT ![p] = "remove"]
                      /\ call' = [call EXCEPT ![p].containerID = id]
                 ELSE /\ pc' = [pc EXCEPT ![p] = "idle"]
                      /\ call' = [call EXCEPT ![p].containerID = id]
           \/ /\ Logged(p, Op("start", call[p].cname, id, "failed"))
              /\ \E cause \in EngineErrors("start failed") : RunContainerFails(p, cause)
              /\ UNCHANGED engine
        /\ UNCHANGED <<disk, fs, nextId, penv, exit, mem, prev>>

\* RunContainer, lines 197-205: the container is started and its id returned
\* (StartProject line 53 keeps it as containerID).
ContainerStart(p) ==
    LET id == call[p].respID
    IN  /\ pc[p] = "start"
        /\ \/ /\ id \in DOMAIN engine
              /\ engine' = [engine EXCEPT ![id].state = "running"]
              /\ Logged(p, Op("start", call[p].cname, id, "ok"))
              /\ IF call[p].op = "StartProject"
                 THEN /\ pc' = [pc EXCEPT ![p] = "attach"]
                      /\ call' = [call EXCEPT ![p].containerID = id]
                 ELSE /\ pc' = [pc EXCEPT ![p] = "idle"]
                      /\ call' = [call EXCEPT ![p].containerID = id]
           \/ /\ Logged(p, Op("start", call[p].cname, id, "failed"))
              /\ \E cause \in EngineErrors("start failed") : RunContainerFails(p, cause)
              /\ UNCHANGED engine
        /\ UNCHANGED <<disk, fs, nextId, penv, exit, mem, prev>>

\* AttachToContainer with the exec started and not waited for (cmd.Start
\* for cmd.Run): it returns nil whatever becomes of the exec.
AttachToContainerNotWaiting(p) ==
    LET id == call[p].containerID
    IN  /\ pc[p] = "attach"
        /\ Logged(p, Op("attach", call[p].cname, id, "ok"))
        /\ pc' = [pc EXCEPT ![p] = "remove"]
        /\ UNCHANGED <<disk, fs, engine, nextId, penv, exit, mem, call, prev>>

\* StartProject, lines 58-62, and AttachToContainer: docker exec -it <id>
\* nvim runs until the editor ends.  It fails when the container is not
\* running and when the editor exits with a non-zero status.
AttachToContainer(p) ==
    LET id == call[p].containerID
    IN  /\ pc[p] = "attach"
        /\ \/ /\ id \in DOMAIN engine
              /\ engine[id].state = "running"
              /\ Logged(p, Op("attach", call[p].cname, id, "ok"))
              /\ pc' = [pc EXCEPT ![p] = "remove"]
              /\ UNCHANGED call
           \/ /\ Logged(p, Op("attach", call[p].cname, id, "failed"))
              /\ Return(p, <<"error attaching to container",
                             "error executing Neovim">>)
        /\ UNCHANGED <<disk, fs, engine, nextId, penv, exit, mem, prev>>

\* RemoveContainer with a failed removal only logged: StartProject returns
\* nil although the container is still there.
RemoveContainerLoggingFailure(p) ==
    LET id == call[p].containerID
    IN  /\ pc[p] = "remove"
        /\ \/ /\ id \in DOMAIN engine
              /\ engine' = [i \in DOMAIN engine \ {id} |-> engine[i]]
              /\ Logged(p, Op("remove", call[p].cname, id, "ok"))
              /\ Return(p, << >>)
           \/ /\ UNCHANGED engine
              /\ Logged(p, Op("remove", call[p].cname, id, "failed"))
              /\ Return(p, << >>)
        /\ UNCHANGED <<disk, fs, nextId, penv, exit, mem, prev>>

\* StartProject, lines 64-70, and RemoveContainer: the container is removed
\* by id, with force.
RemoveContainer(p) ==
    LET id == call[p].containerID
    IN  /\ pc[p] = "remove"
        /\ \/ /\ id \in DOMAIN engine
              /\ engine' = [i \in DOMAIN engine \ {id} |-> engine[i]]
              /\ Logged(p, Op("remove", call[p].cname, id, "ok"))
              /\ Return(p, << >>)
           \/ /\ UNCHANGED engine
              /\ Logged(p, Op("remove", call[p].cname, id, "failed"))
              /\ Return(p, <<"error removing container", "remove failed">>)
        /\ UNCHANGED <<disk, fs, nextId, penv, exit, mem, prev>>

----------------------------------------------------------------------------
(* Sessions: one process at a time runs the start command, against the     *)
(* configuration file the user has.                                        *)

Next ==
    \/ initConfig(Main)
    \/ Exit(Main)
    \/ Interrupt(Main)
    \/ \E d \in Dirs, r \in Repos : startCmd(Main, d, r)
    \/ Stat(Main)
    \/ CloneRepo(Main)
    \/ NewClient(Main)
    \/ ImagePull(Main)
    \/ ContainerCreate(Main)
    \/ ContainerStart(Main)
    \/ AttachToContainer(Main)
    \/ RemoveContainer(Main)
    \/ \E id \in DOMAIN engine : ContainerExits(id)

Spec == Init /\ [][Next]_vars

(* RunContainer called on its own, any number of times.                    *)

RunNext ==
    \/ initConfig(Main)
    \/ Exit(Main)
    \/ RunContainer(Main, "cdaprod/api:latest", "nvim-api")
    \/ NewClient(Main)
    \/ ImagePull(Main)
    \/ ContainerCreate(Main)
    \/ ContainerStart(Main)
    \/ \E id \in DOMAIN engine : ContainerExits(id)

RunSpec == Init /\ [][RunNext]_vars

(* The configuration commands: add from the command line, and              *)
(* AddProjectConfig called with an image and a container name of its own.  *)

\* The repository names given to add: those of start and one with a dot.
AddRepos == Repos \cup {"api.v2"}

ConfigNext ==
    \/ initConfig(Main)
    \/ Exit(Main)
    \/ \E d \in Dirs, r \in AddRepos, u \in Urls : addProjectCmd(Main, d, r, u)
    \/ \E d \in Dirs, r \in AddRepos, u \in Urls :
          AddProjectConfig(Main, d, r, u, "acme/dev:2", "dev-box")

ConfigSpec == Init /\ [][ConfigNext]_vars

(* Two processes, invoked independently, each run the start command for    *)
(* the same project, their steps interleaved in any way.                   *)

ConcNext ==
    \/ \E p \in Procs : initConfig(p)
    \/ \E p \in Procs, r \in {"api", "Api"} : startCmd(p, "demo", r)
    \/ \E p \in Procs : Stat(p)
    \/ \E p \in Procs : CloneRepo(p)
    \/ \E p \in Procs : NewClient(p)
    \/ \E p \in Procs : ImagePull(p)
    \/ \E p \in Procs : ContainerCreate(p)
    \/ \E p \in Procs : ContainerStart(p)
    \/ \E p \in Procs : AttachToContainer(p)
    \/ \E p \in Procs : RemoveContainer(p)
    \/ \E id \in DOMAIN engine : ContainerExits(id)

ConcSpec == Init /\ [][ConcNext]_vars

(* The command line: a process runs one command, start or add, and ends.   *)

CliNext ==
    \/ Next
    \/ \E r \in Repos : addProjectCmd(Main, "demo", r, "https://example.com/api.git")

CliSpec == Init /\ [][CliNext]_vars

(* Two processes, each of them one add command; both may have read the     *)
(* configuration file before either writes it.                             *)
ConcAddNext ==
    \/ \E p \in Procs : initConfig(p)
    \/ \E p \in Procs, r \in Repos :
          addProjectCmd(p, "demo", r, "https://example.com/api.git")

ConcAddSpec == Init /\ [][ConcAddNext]_vars
----------------------------------------------------------------------------
(* Properties.                                                             *)

\* The positions of the log of p that hold the operation op.
Entries(p, op) == {i \in DOMAIN log[p] : log[p][i].op = op}

\* The positions of the log of p where op ended with res.
Ended(p, op, res) == {i \in Entries(p, op) : log[p][i].res = res}

\* The call of p is a StartProject that got past the home directory lookup.
Session(p) ==
    call[p].op = "StartProject" /\ call[p].err # <<"error getting home directory">>

\* C1: once RunContainer has returned an id, a StartProject whose attachment
\* failed has still called RemoveContainer exactly once, with that id.
TeardownAfterAttachError ==
    \A p \in Procs :
        (Returned(p) /\ Session(p) /\ Ended(p, "attach", "failed") # {})
        => /\ Cardinality(Entries(p, "remove")) = 1
           /\ \A i \in Entries(p, "remove") : log[p][i].id = call[p].containerID

\* C2: no create call is issued while the engine holds a container of the
\* name it asks for, in whatever state: RunContainer has removed it before.
ExistingContainerRemovedBeforeCreate ==
    [][\A p \in Procs :
          (pc[p] = "create" /\ pc'[p] # "create") => ~NameTaken(call[p].cname)]_vars

\* C4: when StartProject has returned and no remove call failed, the engine
\* holds no container that the session created.
NoSessionContainerRemains ==
    \A p \in Procs :
        (Returned(p) /\ Session(p) /\ Ended(p, "remove", "failed") = {})
        => \A i \in Ended(p, "create", "ok") : log[p][i].id \notin DOMAIN engine
\* The key of the session of p as pkg.go builds it, and the record the
\* configuration of p holds under it.
SessionKey(p) ==
    lowerSegments(<<"users", IF penv[p].userOK THEN "bob" ELSE "",
                    "projects", call[p].dir, "repos", call[p].repo>>)

HasRecord(p) == SessionKey(p) \in DOMAIN mem[p]

\* The value a record gives for a field: "" when it lacks the field.
Stored(rec, field) == IF field \in DOMAIN rec THEN rec[field] ELSE ""

\* C5: a session whose key has a record uses exactly the record's repo_url,
\* docker_image and container_name; nothing derived is mixed in.
ResolverReturnsStoredRecord ==
    \A p \in Procs :
        (Session(p) /\ HasRecord(p))
        => LET rec == mem[p][SessionKey(p)]
           IN  /\ call[p].repoURL = Stored(rec, "repo_url")
               /\ call[p].image = Stored(rec, "docker_image")
               /\ call[p].cname = Stored(rec, "container_name")

\* A session runs on a stored record whose three values all differ from the
\* derived ones.
StoredRecordInUse ==
    \E p \in Procs :
        /\ Session(p) /\ HasRecord(p)
        /\ call[p].repoURL = "https://example.com/api.git"
        /\ call[p].image = "acme/api-dev:1"
        /\ call[p].cname = "api-dev"
        /\ pc[p] = "attach"

\* The lower-case form of each repository name, written out.
LowerName == [r \in Repos |-> IF r = "web" THEN "web" ELSE "api"]

DocumentedRecordFound ==
    \A p \in Procs :
        LET k == lowerSegments(documentedKey(call[p].dir, call[p].repo))
        IN  (Session(p) /\ k \in DOMAIN mem[p])
            => /\ call[p].repoURL = Stored(mem[p][k], "repo_url")
               /\ call[p].image = Stored(mem[p][k], "docker_image")
               /\ call[p].cname = Stored(mem[p][k], "container_name")
\* The engine did what the call asked of it, or refused a name in use.
Cooperative(e) == e = << >> \/ e = <<"name conflict">>

\* The call c is a RunContainer call with the inputs of the call d.
SameInputs(c, d) ==
    /\ c.op = "RunContainer" /\ d.op = "RunContainer"
    /\ c.image = d.image /\ c.cname = d.cname /\ c.binds = d.binds

\* C3: when RunContainer returns from the second of two calls in succession
\* with the same inputs, the engine having cooperated in both, exactly one
\* container of that name is running.
TwiceLeavesOneRunning ==
    [][\A p \in Procs :
          ( /\ pc[p] # "idle" /\ pc'[p] = "idle"
            /\ SameInputs(prev[p], call[p])
            /\ Cooperative(prev[p].err) /\ Cooperative(call'[p].err) )
          => Cardinality({id \in DOMAIN engine' :
                            /\ engine'[id].name = call[p].cname
                            /\ engine'[id].state = "running"}) = 1]_vars

\* An AddProjectConfig call of p returns in this step.
AddReturns(p) ==
    /\ pc[p] = "idle" /\ pc'[p] = "idle"
    /\ call'[p].op = "AddProjectConfig"
    /\ <<call[p], mem[p], disk>> # <<call'[p], mem'[p], disk'>>

\* The record an add call stores.
RecordOf(c) ==
    [repo_url |-> c.repoURL, docker_image |-> c.image, container_name |-> c.cname]

\* C8: an add for a key that has a record returns an error and changes
\* nothing; no add changes a record that exists, in memory or in the file; a
\* record comes into being only as the record of the add that succeeds.
DuplicateAddRejected ==
    [][\A p \in Procs :
          AddReturns(p)
          => LET k == lowerSegments(<<"users", "bob", "projects", call'[p].dir,
                                      "repos", call'[p].repo>>)
             IN  /\ k \in DOMAIN mem[p]
                    => call'[p].err # << >> /\ mem'[p] = mem[p] /\ disk' = disk
                 /\ \A q \in DOMAIN mem[p] :
                       q \in DOMAIN mem'[p] /\ mem'[p][q] = mem[p][q]
                 /\ \A q \in DOMAIN disk.data :
                       q \in DOMAIN disk'.data /\ disk'.data[q] = disk.data[q]
                 /\ \A q \in DOMAIN mem'[p] \ DOMAIN mem[p] :
                       /\ call'[p].err = << >>
                       /\ q = k /\ mem'[p][q] = RecordOf(call'[p])
                 /\ \A q \in DOMAIN disk'.data \ DOMAIN disk.data :
                       /\ call'[p].err = << >>
                       /\ q = k /\ disk'.data[q] = RecordOf(call'[p])]_vars

\* C9: at the probe of the project path, a path that exists sends the
\* session on to RunContainer with no clone, and a path that does not exist
\* sends it to CloneRepo, which is called once.
MaterializerGoesByPath ==
    [][\A p \in Procs :
          LET path == projectPath(HomeDir, call[p].dir, call[p].repo)
          IN  /\ (pc[p] = "stat" /\ pc'[p] # "stat")
                 => /\ Entries(p, "clone") = {}
                    /\ IF path \in fs THEN pc'[p] = "client" ELSE pc'[p] = "clone"
              /\ (pc[p] = "clone" /\ pc'[p] # "clone")
                 => /\ Entries(p, "clone") = {}
                    /\ Cardinality({i \in DOMAIN log'[p] :
                                      log'[p][i].op = "clone"}) = 1]_vars

EngineOps == {"pull", "create", "start", "attach", "remove"}

\* C10: a session whose clone failed has returned the clone error and holds
\* no engine operation in its log, which no longer grows.
CloneFailureStopsSession ==
    \A p \in Procs :
        (Session(p) /\ Ended(p, "clone", "failed") # {})
        => /\ Returned(p)
           /\ call[p].err # << >>
           /\ call[p].err[1] = "error cloning repository"
           /\ \A i \in DOMAIN log[p] : log[p][i].op \notin EngineOps

\* A session has ended on a failed clone.
CloneFailed ==
    \E p \in Procs :
        /\ Returned(p) /\ Session(p)
        /\ Ended(p, "clone", "failed") # {}
        /\ call[p].err = <<"error cloning repository", "clone failed">>

\* The position of the first engine operation in the log of p, 0 for none.
FirstEngineOp(p) ==
    LET eng == {i \in DOMAIN log[p] : log[p][i].op \in EngineOps}
    IN  IF eng = {} THEN 0 ELSE CHOOSE i \in eng : \A j \in eng : i <= j

HomeExpanded ==
    ("$HOME/Projects/demo/api/plugins:/root/plugins"
        :> "/home/bob/Projects/demo/api/plugins:/root/plugins")
    @@ ("/srv/data:/data" :> "/srv/data:/data")

\* The sequence e occurs in b, in order, at positions after the first n.
OccursAfter(e, b, n) ==
    \E f \in [1..Len(e) -> (n + 1)..Len(b)] :
        /\ \A i \in 1..Len(e) : b[f[i]] = HomeExpanded[e[i]]
        /\ \A i, j \in 1..Len(e) : i < j => f[i] < f[j]

\* C12: when the record of the session has volume_bindings, the bind list
\* given to the create call holds each of them, "$HOME" expanded, in the
\* order of the record, after the three default bindings.
RecordBindingsAppended ==
    \A p \in Procs :
        ( /\ Session(p) /\ HasRecord(p)
          /\ "volume_bindings" \in DOMAIN mem[p][SessionKey(p)]
          /\ Entries(p, "create") # {} )
        => OccursAfter(mem[p][SessionKey(p)].volume_bindings, call[p].binds, 3)

\* Home directories and project paths to compose bindings for.
Homes == {"/home/bob", "/root", "/Users/al"}
Paths == {"/home/bob/Projects/demo/api", "/root/Projects/p/r", "/mnt/src"}

\* The list b starts with the three default bindings of the home directory
\* h, in their order, and ends with the binding of path to /usr/src/app.
DefaultsThenSource(b, h, path) ==
    /\ Len(b) >= 4
    /\ b[1] = h \o "/.config/nvim:/root/.config/nvim"
    /\ b[2] = h \o "/.vim:/root/.vim"
    /\ b[3] = h \o "/.vimrc:/root/.vimrc"
    /\ b[Len(b)] = path \o ":/usr/src/app"

WorstOfAttachAndTeardown ==
    \A p \in Procs :
        (Returned(p) /\ Session(p) /\ Ended(p, "start", "ok") # {})
        => /\ call[p].err = << >>
              <=> (Ended(p, "attach", "ok") # {} /\ Ended(p, "remove", "ok") # {})
           /\ Ended(p, "attach", "failed") # {}
              => call[p].err[1] = "error attaching to container"
           /\ Ended(p, "remove", "failed") # {}
              => call[p].err[1] = "error removing container"

\* A session whose attachment went well has returned the error of its failed
\* removal, the container left in the engine.
TeardownFailed ==
    \E p \in Procs :
        /\ Returned(p) /\ Session(p)
        /\ Ended(p, "attach", "ok") # {}
        /\ Ended(p, "remove", "failed") # {}
        /\ call[p].err = <<"error removing container", "remove failed">>
        /\ call[p].containerID \in DOMAIN engine

\* The results a phase of a command can fail with.
Failures == {"failed", "conflict"}

\* C15: when the process ends, its exit status is not 0 if its command
\* returned an error, whichever phase it came from, and in particular if the
\* removal failed after a good attachment; the status is 0 only if the
\* command returned nil and none of its operations failed.
ExitCodeSignalsFailure ==
    [][\A p \in Procs :
          (pc[p] # "off" /\ pc'[p] = "off")
          => /\ call[p].err # << >> => exit'[p] # "0"
             /\ (Ended(p, "attach", "ok") # {} /\ Ended(p, "remove", "failed") # {})
                => exit'[p] # "0"
             /\ exit'[p] = "0"
                => /\ call[p].err = << >>
                   /\ \A i \in DOMAIN log[p] : log[p][i].res \notin Failures]_vars

\* The one process that ever created a container has ended with status 1
\* and the container is still running in the engine.
ExitedOnFailure ==
    \E p \in Procs :
        /\ pc[p] = "off" /\ exit[p] = "1"
        /\ nextId = 2
        /\ 1 \in DOMAIN engine /\ engine[1].state = "running"

\* The place of each external operation, and of each position of a session,
\* in the order of the phases.
Rank ==
    [op \in {"stat", "clone", "pull", "create", "start", "attach", "remove"} |->
        CASE op = "stat" -> 1 [] op = "clone" -> 2 [] op = "pull" -> 3
          [] op = "create" -> 4 [] op = "start" -> 5 [] op = "attach" -> 6
          [] op = "remove" -> 7]

RankAt == Rank @@ ("client" :> 3) @@ ("idle" :> 8)

\* C16: the operations of a session are issued in the order probe, clone,
\* pull, create, start, attach, remove; the operation the session is at has
\* not been issued before the ones ahead of it returned; the bindings are
\* composed after the source is in place and before the pull; and the
\* removal is issued only once the attachment has returned, never while the
\* session is still attached.
PhasesInOrder ==
    \A p \in Procs :
        Session(p)
        => /\ \A i, j \in DOMAIN log[p] :
                 i < j => Rank[log[p][i].op] < Rank[log[p][j].op]
           /\ \A i \in DOMAIN log[p] : Rank[log[p][i].op] < RankAt[pc[p]]
           /\ Entries(p, "pull") # {} => call[p].binds # << >>
           /\ call[p].binds # << >>
              => Entries(p, "stat") # {} /\ pc[p] \notin {"stat", "clone"}
           /\ Entries(p, "remove") # {} => Ended(p, "attach", "ok") # {}
           /\ pc[p] = "attach"
              => /\ Entries(p, "remove") = {}
                 /\ call[p].containerID \in DOMAIN engine

\* A session has gone through every phase: probe, clone, pull, create, start,
\* attach and remove, each once, and has returned nil.
AllPhasesDone ==
    \E p \in Procs :
        /\ Returned(p) /\ Session(p)
        /\ call[p].err = << >>
        /\ [i \in DOMAIN log[p] |-> log[p][i].op]
           = <<"stat", "clone", "pull", "create", "start", "attach", "remove">>

\* C17: a process that ends while its session is blocked in the attachment,
\* as it does on an interrupt signal, has removed the container of the
\* session by the time it is gone.
InterruptTriggersTeardown ==
    [][\A p \in Procs :
          (Session(p) /\ pc[p] = "attach" /\ pc'[p] = "off")
          => call[p].containerID \notin DOMAIN engine']_vars

\* C18: a session whose key has a record that lacks repo_url, docker_image
\* or container_name has returned a configuration error and has issued no
\* operation: no probe, no clone, no pull, no create.
IncompleteRecordRejected ==
    \A p \in Procs :
        ( /\ Session(p) /\ HasRecord(p)
          /\ \E f \in {"repo_url", "docker_image", "container_name"} :
                f \notin DOMAIN mem[p][SessionKey(p)] )
        => /\ Returned(p)
           /\ call[p].err # << >>
           /\ log[p] = << >>

\* The containers the session of p created that the engine still holds.
Mine(p) == {log[p][i].id : i \in Ended(p, "create", "ok")} \cap DOMAIN engine

\* RunContainer failed in the session of p.
RunContainerFailed(p) ==
    /\ Returned(p) /\ Session(p)
    /\ call[p].err # << >>
    /\ call[p].err[1] = "error running container"

\* C19: a session issues a remove call only after its start call ended
\* well; a session whose RunContainer failed has issued no remove call, and
\* it leaves a container in the engine exactly when its create call ended
\* well and its start call failed, that container being created, not started.
RemoveOnlyAfterStart ==
    \A p \in Procs :
        /\ (Session(p) /\ Entries(p, "remove") # {}) => Ended(p, "start", "ok") # {}
        /\ RunContainerFailed(p)
           => /\ Entries(p, "remove") = {}
              /\ \A id \in Mine(p) : engine[id].state = "created"
              /\ Mine(p) # {}
                 <=> (Ended(p, "create", "ok") # {} /\ Ended(p, "start", "failed") # {})

\* A session has ended on a failed start and its container sits in the
\* engine, created and not started.
StartFailedLeavesCreated ==
    \E p \in Procs :
        /\ RunContainerFailed(p)
        /\ Ended(p, "start", "failed") # {}
        /\ Entries(p, "remove") = {}
        /\ call[p].respID \in DOMAIN engine
        /\ engine[call[p].respID].state = "created"

\* C20: a session issues each of clone, pull, create, start, attach and
\* remove at most once, and an operation that failed is the last one the
\* session issues: the session has returned and nothing follows the failure.
NoRetry ==
    \A p \in Procs :
        Session(p)
        => /\ \A op \in {"clone"} \cup EngineOps : Cardinality(Entries(p, op)) <= 1
           /\ \A i \in DOMAIN log[p] :
                 log[p][i].res \in Failures => (i = Len(log[p]) /\ Returned(p))

\* A session has ended on a create call the engine failed, issued once, after
\* a pull issued once.
CreateFailedOnce ==
    \E p \in Procs :
        /\ Returned(p) /\ Session(p)
        /\ Ended(p, "create", "failed") # {}
        /\ Cardinality(Entries(p, "create")) = 1
        /\ Cardinality(Entries(p, "pull")) = 1
        /\ call[p].err = <<"error running container", "create failed">>

\* The phase of RunContainer that failed in the session of p: the operation
\* of the last entry of its log, "none" when that entry is no failure.
FailedPhase(p) ==
    IF log[p] # << >> /\ log[p][Len(log[p])].res \in Failures
                     /\ log[p][Len(log[p])].op \in {"pull", "create", "start"}
    THEN log[p][Len(log[p])].op
    ELSE "none"

\* C21: two sessions whose RunContainer failed in different phases (pull,
\* create, start) have returned different error values from StartProject.
FailedPhaseIdentified ==
    \A p, q \in Procs :
        ( /\ RunContainerFailed(p) /\ RunContainerFailed(q)
          /\ FailedPhase(p) # "none" /\ FailedPhase(q) # "none"
          /\ FailedPhase(p) # FailedPhase(q) )
        => call[p].err # call[q].err

\* C22: in a session every call that came back with an error has made
\* StartProject return an error: an entry of the log that did not end well
\* is the last one, the session has returned and its result is not nil; the
\* same for a user lookup that failed during the resolution.
NoErrorSwallowed ==
    \A p \in Procs :
        Session(p)
        => /\ \A i \in DOMAIN log[p] :
                 log[p][i].res # "ok"
                 => (i = Len(log[p]) /\ Returned(p) /\ call[p].err # << >>)
           /\ ~penv[p].userOK => (Returned(p) /\ call[p].err # << >>)

\* How far the container of the session of p has come: 0 absent, 1 created,
\* 2 running, 3 attached, 4 removed.
Stage(p) ==
    IF Ended(p, "remove", "ok") # {} THEN 4
    ELSE IF Ended(p, "attach", "ok") # {} THEN 3
    ELSE IF Ended(p, "start", "ok") # {} THEN 2
    ELSE IF Ended(p, "create", "ok") # {} THEN 1
    ELSE 0

\* C23: the container of a session is absent when the session begins, and a
\* step of the session leaves it where it is or takes it one stage on, along
\* absent, created, running, attached, removed: it is created as a new
\* container, started from created, attached while it is running, and once
\* removed it is not in the engine again.
LifecycleForward ==
    [][\A p \in Procs :
          /\ (pc[p] = "idle" /\ pc'[p] \notin {"idle", "off"}) => Stage(p)' = 0
          /\ (pc[p] \notin {"idle", "off"} /\ pc'[p] # "off" /\ Session(p))
             => LET id == call'[p].respID
                IN  /\ Stage(p)' \in {Stage(p), Stage(p) + 1}
                    /\ (Stage(p) = 0 /\ Stage(p)' = 1)
                       => (id \notin DOMAIN engine /\ engine'[id].state = "created")
                    /\ (Stage(p) = 1 /\ Stage(p)' = 2)
                       => (engine[id].state = "created" /\ engine'[id].state = "running")
                    /\ (Stage(p) = 2 /\ Stage(p)' = 3) => engine[id].state = "running"
                    /\ (Stage(p) = 3 /\ Stage(p)' = 4) => id \notin DOMAIN engine'
                    /\ Stage(p) = 4 => Stage(p)' = 4
          /\ (Session(p) /\ Stage(p) = 4) => call[p].respID \notin DOMAIN engine']_vars

\* The container of a session has gone through all its stages and is out of
\* the engine, which holds nothing.
LifecycleCompleted ==
    \E p \in Procs :
        /\ Session(p) /\ Stage(p) = 4
        /\ call[p].containerID = 1
        /\ DOMAIN engine = {}

\* C24: whatever the sessions before it left behind, a session does not fail
\* on the name of its container being in use: its create call never ends in
\* a name conflict, and it is never about to create under a name the engine
\* holds.
NoNameCollision ==
    \A p \in Procs :
        Session(p)
        => /\ Ended(p, "create", "conflict") = {}
           /\ pc[p] = "create" => ~NameTaken(call[p].cname)

\* C25: no step of a process whose command is StartProject, the step that
\* enters it included, changes the configuration: the settings the process
\* holds in memory and the configuration file stay as they are.
SessionLeavesStoreUnchanged ==
    [][\A p \in Procs :
          call'[p].op = "StartProject"
          => (mem'[p] = mem[p] /\ disk' = disk)]_vars

\* A session has run to its end on a record that an add command of an
\* earlier process wrote to the configuration file, which still holds it.
SessionAfterAdd ==
    \E p \in Procs :
        /\ Returned(p) /\ Session(p) /\ HasRecord(p)
        /\ Ended(p, "remove", "ok") # {}
        /\ call[p].repo = "web"
        /\ call[p].repoURL = "https://example.com/api.git"
        /\ disk.exists /\ SessionKey(p) \in DOMAIN disk.data
        /\ disk.data[SessionKey(p)] = mem[p][SessionKey(p)]

\* The key pkg.go builds for the call c of the user bob.
KeyOf(c) == lowerSegments(projectKey("bob", c.dir, c.repo))

\* C26: an add that returns nil has put the record it was called with under
\* the key of (dir, repo), in memory and in the file, and a resolution for
\* (dir, repo) then gives that url, image and container name; and a start
\* command of the same user whose key has a record in the file resolves to
\* the values of that record, not to derived ones.
AddThenResolve ==
    [][\A p \in Procs :
          /\ (AddReturns(p) /\ call'[p].err = << >>)
             => LET c == call'[p]
                IN  /\ KeyOf(c) \in DOMAIN disk'.data
                    /\ disk'.data[KeyOf(c)] = RecordOf(c)
                    /\ deriveProjectValues(mem'[p], TRUE, c.dir, c.repo)
                       = [repoURL |-> c.repoURL, dockerImage |-> c.image,
                          containerName |-> c.cname]
                    /\ deriveProjectValues(ReadInConfig(disk'), TRUE, c.dir, c.repo)
                       = [repoURL |-> c.repoURL, dockerImage |-> c.image,
                          containerName |-> c.cname]
          /\ ( /\ call[p].op = "none" /\ call'[p].op = "StartProject"
               /\ penv[p].userOK /\ penv[p].homeOK
               /\ KeyOf(call'[p]) \in DOMAIN disk.data )
             => LET rec == disk.data[KeyOf(call'[p])]
                IN  /\ call'[p].repoURL = Stored(rec, "repo_url")
                    /\ call'[p].image = Stored(rec, "docker_image")
                    /\ call'[p].cname = Stored(rec, "container_name")]_vars

\* A start command for "Api" runs on the record an add command wrote: the
\* url that was given to add, where derivation would give the GitHub one.
AddedRecordResolved ==
    \E p \in Procs :
        /\ Session(p) /\ HasRecord(p)
        /\ call[p].repo = "Api"
        /\ call[p].repoURL = "https://example.com/api.git"
        /\ call[p].image = "cdaprod/api:latest"
        /\ call[p].cname = "nvim-api"
        /\ pc[p] = "stat"

\* C27: an AddProjectConfig that returns an error has left the settings in
\* memory and the configuration file exactly as they were before the call.
FailedAddChangesNothing ==
    [][\A p \in Procs :
          (AddReturns(p) /\ call'[p].err # << >>)
          => (mem'[p] = mem[p] /\ disk' = disk)]_vars

\* C28: when the project path is there at the os.Stat of a session, the
\* session clones nothing, removes nothing and looks no further at the
\* directory: its next step is RunContainer with the path bound to
\* /usr/src/app, and its log never holds a clone.
ExistingDirectoryUsed ==
    [][\A p \in Procs :
          LET path == projectPath(HomeDir, call[p].dir, call[p].repo)
          IN  /\ (pc[p] = "stat" /\ pc'[p] \notin {"stat", "off"} /\ path \in fs)
                 => /\ pc'[p] = "client"
                    /\ fs' = fs
                    /\ call'[p].err = << >>
                    /\ call'[p].binds[Len(call'[p].binds)]
                       = path \o ":/usr/src/app"
              /\ (Ended(p, "stat", "ok") # {})' => (Entries(p, "clone") = {})']_vars

\* The clone of one session failed and left the path behind; the session of
\* the other process for the same project found the path, cloned nothing
\* and has its container running.
FailedCloneDirectoryReused ==
    \E p, q \in Procs :
        /\ p # q
        /\ Session(p) /\ Session(q)
        /\ call[p].dir = call[q].dir /\ call[p].repo = call[q].repo
        /\ Ended(q, "clone", "failed") # {}
        /\ Ended(p, "stat", "ok") # {}
        /\ Entries(p, "clone") = {}
        /\ Ended(p, "start", "ok") # {}
        /\ projectPath(HomeDir, call[p].dir, call[p].repo) \in fs

\* All that the store holds at the key path k and below it.
Under(store, k) ==
    [q \in {q \in DOMAIN store : Len(q) >= Len(k) /\ SubSeq(q, 1, Len(k)) = k}
       |-> store[q]]

\* C29: an AddProjectConfig that returns nil leaves what is stored under the
\* key of every other (directory, repository) as it was, in memory and in the
\* configuration file.
OtherRecordsUnchanged ==
    [][\A p \in Procs :
          (AddReturns(p) /\ call'[p].err = << >>)
          => \A k \in (DOMAIN mem[p] \cup DOMAIN disk.data) \ {KeyOf(call'[p])} :
                /\ Under(mem'[p], k) = Under(mem[p], k)
                /\ k \in DOMAIN disk.data
                   => Under(disk'.data, k) = Under(disk.data, k)]_vars

\* The ids of the containers the create calls of p have returned.
Created(p) == {log[p][i].id : i \in Ended(p, "create", "ok")}

Added(p) == Returned(p) /\ call[p].op = "AddProjectConfig" /\ call[p].err = << >>

\* C31: when the add commands of two processes for distinct keys have both
\* returned nil, each process having read the configuration before the
\* other wrote it, the configuration file holds both records.
BothRecordsPersisted ==
    \A p, q \in Procs :
        ( /\ p # q
          /\ Added(p) /\ Added(q)
          /\ KeyOf(call[p]) # KeyOf(call[q])
          /\ KeyOf(call[q]) \notin DOMAIN mem[p]
          /\ KeyOf(call[p]) \notin DOMAIN mem[q] )
        => /\ KeyOf(call[p]) \in DOMAIN disk.data
           /\ KeyOf(call[q]) \in DOMAIN disk.data

\* The call c is one the add command makes: image and container name are
\* the ones addProjectCmd computes from the repository name.
FromCli(c) ==
    /\ c.op = "AddProjectConfig"
    /\ c.image = "cdaprod/" \o ToLower(c.repo) \o ":latest"
    /\ c.cname = "nvim-" \o ToLower(c.repo)

\* C32: the image and the container name the add command stores are the
\* ones resolution derives for that repository when there is no record, and
\* an add command that returns nil leaves the image and the container name
\* that a start resolves from the configuration file as they were before
\* it, for every directory and repository.
CliAddKeepsImageAndName ==
    [][\A p \in Procs :
          (AddReturns(p) /\ call'[p].err = << >> /\ FromCli(call'[p]))
          => /\ LET v == deriveProjectValues(EmptyStore, TRUE,
                                             call'[p].dir, call'[p].repo)
                IN  /\ call'[p].image = v.dockerImage
                    /\ call'[p].cname = v.containerName
             /\ \A d \in Dirs, r \in AddRepos, userOK \in BOOLEAN :
                   LET before == deriveProjectValues(ReadInConfig(disk), userOK, d, r)
                       after  == deriveProjectValues(ReadInConfig(disk'), userOK, d, r)
                   IN  /\ after.dockerImage = before.dockerImage
                       /\ after.containerName = before.containerName]_vars

====
